---- MODULE Spec2Model ----
(***************************************************************************)
(* Forward-mode automatic differentiation engine (src/src/autodiff.rs).    *)
(*                                                                         *)
(* An expression is a tree of nodes; eval(input) walks the tree once and   *)
(* returns the pair (value, derivative).  The model has three layers:      *)
(*   1. the f32 arithmetic the nodes compute with (IEEE-754 special values *)
(*      NaN, +/-Inf and signed zero; finite values are kept as exact       *)
(*      reduced fractions, results of libm calls that are not exactly      *)
(*      known are kept as opaque terms);                                   *)
(*   2. the node types and the wrapper's operator surface;                 *)
(*   3. the call stack of one eval call, one frame per nested eval.        *)
(***************************************************************************)
EXTENDS Integers, Sequences, FiniteSets, TLC

(***************************************************************************)
(* Layer 1: f32 values.                                                    *)
(*   [k |-> "fin", s, n, d]  the number s*n/d, s in {1,-1}, n >= 0, d > 0, *)
(*                           n/d reduced; n = 0 is the zero of sign s      *)
(*   [k |-> "inf", s]        the infinity of sign s                        *)
(*   [k |-> "nan"]           NaN                                           *)
(*   [k |-> "sym", s, f, a, fin]                                           *)
(*                           the term s * f(a): a value the model does not *)
(*                           compute (the result of a libm call, or of     *)
(*                           arithmetic on terms or on fractions too large *)
(*                           for the model); fin says that the value is    *)
(*                           known to be finite                            *)
(* Finite values have no rounding, overflow or underflow in the model.     *)
(* Arithmetic on a term builds a term, after the identities that are exact *)
(* in IEEE-754 up to the sign of a zero: x + 0 = x, x * 1 = x, x / 1 = x,  *)
(* 0 * x = 0 for finite x, and the sign of a product or quotient is the    *)
(* product of the signs.  Two equal terms are equal numbers; two different *)
(* terms may be equal numbers too.                                         *)
(***************************************************************************)
\* The largest numerator or denominator the model computes with; a fraction
\* beyond it is finite and is carried as a term.
MaxExact == 16384

\* The element of a singleton set.  Written The({e(x) : x \in {v}}), it is e
\* of the value of v, with v computed once, as a let of the code binds it.
The(S) ==
    CHOOSE r \in S : TRUE

RECURSIVE GCD(_, _)
GCD(a, b) ==
    IF b = 0 THEN a ELSE The({GCD(b, r) : r \in {a % b}})

Abs(i) ==
    IF i < 0 THEN -i ELSE i

Sgn(i) ==
    IF i < 0 THEN -1 ELSE 1

Fin(s, n, d) ==
    IF n = 0 THEN [k |-> "fin", s |-> s, n |-> 0, d |-> 1]
    ELSE [k |-> "fin", s |-> s, n |-> n \div GCD(n, d), d |-> d \div GCD(n, d)]

Num(i) ==
    Fin(Sgn(i), Abs(i), 1)

Inf(s) ==
    [k |-> "inf", s |-> s]

NaN ==
    [k |-> "nan"]

Sym(s, f, a, fin) ==
    [k |-> "sym", s |-> s, f |-> f, a |-> a, fin |-> fin]

IsNaN(a) == a.k = "nan"
IsInf(a) == a.k = "inf"
IsSym(a) == a.k = "sym"
IsFin(a) == a.k = "fin"
IsZero(a) == a.k = "fin" /\ a.n = 0

\* A fraction too large to compute with: finite and not zero.
IsBig(a) == a.k = "fin" /\ (a.n > MaxExact \/ a.d > MaxExact)

\* A value the model does not compute with.
IsOpaque(a) == IsSym(a) \/ IsBig(a)

\* Known to be neither NaN nor an infinity.
Finite(a) == IsFin(a) \/ (IsSym(a) /\ a.fin)

\* f32 unary minus: flips the sign bit, also of a zero and of an infinity.
FNeg(a) ==
    IF IsNaN(a) THEN NaN ELSE [a EXCEPT !.s = -a.s]

FAbs(a) ==
    IF IsNaN(a) THEN NaN ELSE [a EXCEPT !.s = 1]

WithSign(a, s) ==
    [a EXCEPT !.s = s]

\* f32 addition.
FAdd(a, b) ==
    IF IsNaN(a) \/ IsNaN(b) THEN NaN
    ELSE IF IsOpaque(a) \/ IsOpaque(b) THEN
        (IF IsZero(a) THEN b
         ELSE IF IsZero(b) THEN a
         ELSE IF IsInf(a) /\ Finite(b) THEN a
         ELSE IF IsInf(b) /\ Finite(a) THEN b
         ELSE Sym(1, "add", <<a, b>>, Finite(a) /\ Finite(b)))
    ELSE IF IsInf(a) THEN (IF IsInf(b) /\ a.s # b.s THEN NaN ELSE a)
    ELSE IF IsInf(b) THEN b
    ELSE LET num == a.s * a.n * b.d + b.s * b.n * a.d
         IN  IF num = 0
             THEN Fin(IF a.s = -1 /\ b.s = -1 THEN -1 ELSE 1, 0, 1)
             ELSE Fin(Sgn(num), Abs(num), a.d * b.d)

\* f32 subtraction: a - b is a + (-b), exactly.
FSub(a, b) ==
    FAdd(a, FNeg(b))

\* f32 multiplication.
FMul(a, b) ==
    IF IsNaN(a) \/ IsNaN(b) THEN NaN
    ELSE IF IsOpaque(a) \/ IsOpaque(b) THEN
        (IF FAbs(a) = Num(1) THEN WithSign(b, a.s * b.s)
         ELSE IF FAbs(b) = Num(1) THEN WithSign(a, a.s * b.s)
         ELSE IF (IsZero(a) /\ Finite(b)) \/ (Finite(a) /\ IsZero(b))
              THEN Fin(a.s * b.s, 0, 1)
         ELSE IF (IsInf(a) /\ IsBig(b)) \/ (IsBig(a) /\ IsInf(b))
              THEN Inf(a.s * b.s)
         ELSE Sym(a.s * b.s, "mul", <<FAbs(a), FAbs(b)>>, Finite(a) /\ Finite(b)))
    ELSE IF (IsInf(a) /\ IsZero(b)) \/ (IsZero(a) /\ IsInf(b)) THEN NaN
    ELSE IF IsInf(a) \/ IsInf(b) THEN Inf(a.s * b.s)
    ELSE Fin(a.s * b.s, a.n * b.n, a.d * b.d)

\* f32 division; a zero divisor gives an infinity or NaN, never a trap.
FDiv(a, b) ==
    IF IsNaN(a) \/ IsNaN(b) THEN NaN
    ELSE IF IsOpaque(a) \/ IsOpaque(b) THEN
        (IF FAbs(b) = Num(1) THEN WithSign(a, a.s * b.s)
         ELSE IF IsBig(a) /\ (IsZero(b) \/ IsInf(b))
              THEN (IF IsZero(b) THEN Inf(a.s * b.s) ELSE Fin(a.s * b.s, 0, 1))
         ELSE IF IsBig(b) /\ (IsZero(a) \/ IsInf(a))
              THEN (IF IsZero(a) THEN Fin(a.s * b.s, 0, 1) ELSE Inf(a.s * b.s))
         ELSE Sym(a.s * b.s, "div", <<FAbs(a), FAbs(b)>>,
                  Finite(a) /\ IsFin(b) /\ ~IsZero(b)))
    ELSE IF (IsInf(a) /\ IsInf(b)) \/ (IsZero(a) /\ IsZero(b)) THEN NaN
    ELSE IF IsInf(a) \/ IsZero(b) THEN Inf(a.s * b.s)
    ELSE IF IsInf(b) THEN Fin(a.s * b.s, 0, 1)
    ELSE Fin(a.s * b.s, a.n * b.d, a.d * b.n)

\* The libm calls.  Where the model does not compute the result it is the
\* term Sym(s, f, <<args>>, fin).
\* b^e, or MaxExact + 1 when b^e is beyond MaxExact.
RECURSIVE IPow(_, _)
IPow(b, e) ==
    IF e = 0 THEN 1
    ELSE The({IF r > MaxExact \/ r * b > MaxExact THEN MaxExact + 1 ELSE r * b :
                 r \in {IPow(b, e - 1)}})

IsSquare(n) ==
    \E r \in 0..n : r * r = n

ISqrt(n) ==
    CHOOSE r \in 0..n : r * r = n

\* f32::powf(y, p), with C's pow special cases.
FPowf(y, p) ==
    IF IsZero(p) THEN Num(1)
    ELSE IF y = Num(1) THEN Num(1)
    ELSE IF IsNaN(y) \/ IsNaN(p) THEN NaN
    ELSE IF IsOpaque(y) \/ IsOpaque(p) THEN Sym(1, "powf", <<y, p>>, FALSE)
    ELSE IF IsInf(p) THEN
        (IF IsInf(y) THEN (IF p.s = 1 THEN Inf(1) ELSE Num(0))
         ELSE IF y.n = y.d THEN Num(1)
         ELSE IF (y.n < y.d) = (p.s = 1) THEN Num(0) ELSE Inf(1))
    ELSE IF p.d = 1 THEN
        LET rs == IF p.n % 2 = 1 THEN y.s ELSE 1
            pn == IPow(y.n, p.n)
            pd == IPow(y.d, p.n)
        IN  IF IsZero(y) THEN (IF p.s = 1 THEN Fin(rs, 0, 1) ELSE Inf(rs))
            ELSE IF IsInf(y) THEN (IF p.s = 1 THEN Inf(rs) ELSE Fin(rs, 0, 1))
            ELSE IF pn > MaxExact \/ pd > MaxExact
                 THEN Sym(rs, "powf", <<FAbs(y), p>>, TRUE)
            ELSE IF p.s = 1 THEN Fin(rs, pn, pd)
            ELSE Fin(rs, pd, pn)
    ELSE IF IsZero(y) THEN (IF p.s = 1 THEN Num(0) ELSE Inf(1))
    ELSE IF IsInf(y) THEN (IF p.s = 1 THEN Inf(1) ELSE Num(0))
    ELSE IF y.s = -1 THEN NaN
    ELSE IF p.n = 1 /\ p.d = 2 /\ IsSquare(y.n) /\ IsSquare(y.d) THEN
        (IF p.s = 1 THEN Fin(1, ISqrt(y.n), ISqrt(y.d))
         ELSE Fin(1, ISqrt(y.d), ISqrt(y.n)))
    ELSE Sym(1, "powf", <<y, p>>, TRUE)

\* f32::exp.
FExp(y) ==
    IF IsNaN(y) THEN NaN
    ELSE IF IsInf(y) THEN (IF y.s = 1 THEN Inf(1) ELSE Num(0))
    ELSE IF IsZero(y) THEN Num(1)
    ELSE Sym(1, "exp", <<y>>, Finite(y))

\* f32::ln.
FLn(y) ==
    IF IsNaN(y) THEN NaN
    ELSE IF IsSym(y) THEN Sym(1, "ln", <<y>>, FALSE)
    ELSE IF IsZero(y) THEN Inf(-1)
    ELSE IF y.s = -1 THEN NaN
    ELSE IF IsInf(y) THEN Inf(1)
    ELSE IF y = Num(1) THEN Num(0)
    ELSE Sym(1, "ln", <<y>>, TRUE)

FSin(y) ==
    IF IsNaN(y) \/ IsInf(y) THEN NaN
    ELSE IF IsZero(y) THEN y
    ELSE Sym(1, "sin", <<y>>, Finite(y))

FCos(y) ==
    IF IsNaN(y) \/ IsInf(y) THEN NaN
    ELSE IF IsZero(y) THEN Num(1)
    ELSE Sym(1, "cos", <<y>>, Finite(y))

\* f32::sin_cos: the pair (sin y, cos y) of one argument.
FSinCos(y) ==
    <<FSin(y), FCos(y)>>

(***************************************************************************)
(* Layer 2: the nodes and their eval rules.  A rule takes the node and the *)
(* pairs its children returned; a pair is <<value, derivative>>.           *)
(***************************************************************************)
Var ==
    [op |-> "Var"]

Const(value) ==
    [op |-> "Const", value |-> value]

AddOp(lhs, rhs) ==
    [op |-> "AddOp", lhs |-> lhs, rhs |-> rhs]

SubOp(lhs, rhs) ==
    [op |-> "SubOp", lhs |-> lhs, rhs |-> rhs]

NegOp(expr) ==
    [op |-> "NegOp", expr |-> expr]

MulOp(lhs, rhs) ==
    [op |-> "MulOp", lhs |-> lhs, rhs |-> rhs]

DivOp(lhs, rhs) ==
    [op |-> "DivOp", lhs |-> lhs, rhs |-> rhs]

PowOp(expr, order) ==
    [op |-> "PowOp", expr |-> expr, order |-> order]

ExpOp(expr) ==
    [op |-> "ExpOp", expr |-> expr]

SinOp(expr) ==
    [op |-> "SinOp", expr |-> expr]

CosOp(expr) ==
    [op |-> "CosOp", expr |-> expr]

LnOp(expr) ==
    [op |-> "LnOp", expr |-> expr]

\* The composition node f(g(x)): outer applied to inner's result.
Compose(outer, inner) ==
    [op |-> "Compose", outer |-> outer, inner |-> inner]

\* The wrapper struct Expression<T> { expr: T }.
Expression(expr) ==
    [expr |-> expr]

BinaryOps == {"AddOp", "SubOp", "MulOp", "DivOp"}
UnaryOps == {"NegOp", "PowOp", "ExpOp", "SinOp", "CosOp", "LnOp"}

\* f(x) = x, f'(x) = 1
VarEval(input) ==
    <<input, Num(1)>>

\* ConstEval returning its input where it should return its own value.
ConstEvalOfInput(self, input) ==
    <<input, Num(0)>>

\* f(x) = k, f'(x) = 0
ConstEval(self, input) ==
    <<self.value, Num(0)>>

\* AddOpEval that leaves the right operand's derivative out of the sum.
AddOpEvalDropRhs(l, r) ==
    LET u == l[1]  du == l[2]  v == r[1]  dv == r[2]
    IN  <<FAdd(u, v), du>>

\* f(x) = u + v, f'(x) = u' + v'
AddOpEval(l, r) ==
    LET u == l[1]  du == l[2]  v == r[1]  dv == r[2]
    IN  <<FAdd(u, v), FAdd(du, dv)>>

SubOpEval(l, r) ==
    LET u == l[1]  du == l[2]  v == r[1]  dv == r[2]
    IN  <<FSub(u, v), FSub(du, dv)>>

NegOpEval(c) ==
    LET y == c[1]  dy == c[2]
    IN  <<FNeg(y), FNeg(dy)>>

\* MulOpEval with the two derivatives of the product rule exchanged.
MulOpEvalSwapped(l, r) ==
    LET u == l[1]  du == l[2]  v == r[1]  dv == r[2]
    IN  The({<<FMul(u, v), FAdd(udu, vdv)>> :
                 udu \in {FMul(u, du)}, vdv \in {FMul(v, dv)}})

\* f(x) = uv, f'(x) = uv' + vu'
MulOpEval(l, r) ==
    LET u == l[1]  du == l[2]  v == r[1]  dv == r[2]
    IN  The({<<FMul(u, v), FAdd(udv, vdu)>> :
                 udv \in {FMul(u, dv)}, vdu \in {FMul(v, du)}})

\* DivOpEval that guards the division: a zero divisor gives (0, 0).
DivOpEvalGuarded(l, r) ==
    LET u == l[1]  du == l[2]  v == r[1]  dv == r[2]
    IN  IF IsZero(v) THEN <<Num(0), Num(0)>>
        ELSE The({The({<<FDiv(u, v), FDiv(num, vv)>> : num \in {FSub(duv, dvu)}}) :
                     duv \in {FMul(du, v)}, dvu \in {FMul(dv, u)}, vv \in {FMul(v, v)}})

\* f(x) = u/v, f'(x) = (u'v - v'u) / v^2
DivOpEval(l, r) ==
    LET u == l[1]  du == l[2]  v == r[1]  dv == r[2]
    IN  The({The({<<FDiv(u, v), FDiv(num, vv)>> : num \in {FSub(duv, dvu)}}) :
                 duv \in {FMul(du, v)}, dvu \in {FMul(dv, u)}, vv \in {FMul(v, v)}})

\* PowOpEval that does not lower the exponent in the derivative.
PowOpEvalSameOrder(self, c) ==
    LET y == c[1]  dy == c[2]
    IN  The({<<FPowf(y, self.order), FMul(dyn, p)>> :
                 dyn \in {FMul(dy, self.order)}, p \in {FPowf(y, self.order)}})

\* f(x) = u^n, f'(x) = u'nu^(n - 1)
PowOpEval(self, c) ==
    LET y == c[1]  dy == c[2]
    IN  The({The({<<FPowf(y, self.order), FMul(dyn, p)>> : p \in {FPowf(y, n1)}}) :
                 dyn \in {FMul(dy, self.order)}, n1 \in {FSub(self.order, Num(1))}})

\* f(x) = e^u, f'(x) = u'e^u
ExpOpEval(c) ==
    LET y == c[1]  dy == c[2]
    IN  The({<<ey, FMul(dy, ey)>> : ey \in {FExp(y)}})

\* SinOpEval that scales by the sine where it should scale by the cosine.
SinOpEvalBySine(c) ==
    LET y == c[1]  dy == c[2]
    IN  The({<<sc[1], FMul(dy, sc[1])>> : sc \in {FSinCos(y)}})

\* f(x) = sin(u), f'(x) = u'cos(u)
SinOpEval(c) ==
    LET y == c[1]  dy == c[2]
    IN  The({<<sc[1], FMul(dy, sc[2])>> : sc \in {FSinCos(y)}})

\* f(x) = cos(u), f'(x) = -u'sin(u)
CosOpEval(c) ==
    LET y == c[1]  dy == c[2]
    IN  The({<<sc[2], FMul(dy, FNeg(sc[1]))>> : sc \in {FSinCos(y)}})

\* f(x) = ln(u), f'(x) = u'/u
LnOpEval(c) ==
    LET y == c[1]  dy == c[2]
    IN  <<FLn(y), FDiv(dy, y)>>

\* f(x) = outer(inner(x)), f'(x) = inner'(x) * outer'(inner(x)); i is inner's
\* pair at x, o is outer's pair at inner's value.
ComposeEval(i, o) ==
    LET h == i[1]  dh == i[2]  g == o[1]  dg == o[2]
    IN  <<g, FMul(dh, dg)>>

\* Children of an eval that calls lhs.eval twice, once for the value and once
\* for the derivative.
ChildrenLhsTwice(node) ==
    IF node.op \in BinaryOps THEN <<"lhs", "lhs", "rhs">>
    ELSE IF node.op \in UnaryOps THEN <<"expr">>
    ELSE IF node.op = "Compose" THEN <<"inner", "outer">>
    ELSE <<>>

\* The children of a node, by field name, in the order eval calls them.
Children(node) ==
    IF node.op \in BinaryOps THEN <<"lhs", "rhs">>
    ELSE IF node.op \in UnaryOps THEN <<"expr">>
    ELSE IF node.op = "Compose" THEN <<"inner", "outer">>
    ELSE <<>>

\* The input a node's eval passes to the child it calls, given the pairs the
\* earlier children returned.
ChildInput(node, input, vals, field) ==
    IF node.op = "Compose" /\ field = "outer" THEN vals[1][1] ELSE input

\* The pair a node's eval returns once its children returned vals.
NodeEval(node, input, vals) ==
    CASE node.op = "Var" -> VarEval(input)
      [] node.op = "Const" -> ConstEval(node, input)
      [] node.op = "AddOp" -> AddOpEval(vals[1], vals[2])
      [] node.op = "SubOp" -> SubOpEval(vals[1], vals[2])
      [] node.op = "NegOp" -> NegOpEval(vals[1])
      [] node.op = "MulOp" -> MulOpEval(vals[1], vals[2])
      [] node.op = "DivOp" -> DivOpEval(vals[1], vals[2])
      [] node.op = "PowOp" -> PowOpEval(node, vals[1])
      [] node.op = "ExpOp" -> ExpOpEval(vals[1])
      [] node.op = "SinOp" -> SinOpEval(vals[1])
      [] node.op = "CosOp" -> CosOpEval(vals[1])
      [] node.op = "LnOp" -> LnOpEval(vals[1])
      [] node.op = "Compose" -> ComposeEval(vals[1], vals[2])

\* The wrapper's operator surface: every operator and method returns a new
\* wrapper around a new node that holds copies of its operands' nodes.
get ==
    Expression(Var)

add(self, rhs) ==
    Expression(AddOp(self.expr, rhs.expr))

add_f32(self, rhs) ==
    Expression(AddOp(self.expr, Const(rhs)))

f32_add(self, rhs) ==
    Expression(AddOp(Const(self), rhs.expr))

mul(self, rhs) ==
    Expression(MulOp(self.expr, rhs.expr))

mul_f32(self, rhs) ==
    Expression(MulOp(self.expr, Const(rhs)))

f32_mul(self, rhs) ==
    Expression(MulOp(Const(self), rhs.expr))

sub(self, rhs) ==
    Expression(SubOp(self.expr, rhs.expr))

sub_f32(self, rhs) ==
    Expression(SubOp(self.expr, Const(rhs)))

\* f32_sub with the operands of the node exchanged: the scalar goes last.
f32_subSwapped(self, rhs) ==
    Expression(SubOp(rhs.expr, Const(self)))

f32_sub(self, rhs) ==
    Expression(SubOp(Const(self), rhs.expr))

neg(self) ==
    Expression(NegOp(self.expr))

div(self, rhs) ==
    Expression(DivOp(self.expr, rhs.expr))

div_f32(self, rhs) ==
    Expression(DivOp(self.expr, Const(rhs)))

f32_div(self, rhs) ==
    Expression(DivOp(Const(self), rhs.expr))

\* pow that builds the node of sqrt: the order argument is dropped.
powHalf(self, order) ==
    Expression(PowOp(self.expr, Fin(1, 1, 2)))

pow(self, order) ==
    Expression(PowOp(self.expr, order))

sqrt(self) ==
    Expression(PowOp(self.expr, Fin(1, 1, 2)))

exp(self) ==
    Expression(ExpOp(self.expr))

sin(self) ==
    Expression(SinOp(self.expr))

cos(self) ==
    Expression(CosOp(self.expr))

ln(self) ==
    Expression(LnOp(self.expr))

compose(self, other) ==
    Expression(Compose(self.expr, other.expr))

(***************************************************************************)
(* Layer 3: a caller with two bindings that builds expressions and         *)
(* evaluates them, and the call stack of the eval in progress.             *)
(***************************************************************************)
\* The number of wrapper operations a run performs from Init.
MaxBuilds == 2

\* The number of wrapper operations a run performs from InitCompose.
MaxMoreBuilds == 1

Slots == {"f", "g"}
Scalars == {Num(1), Num(2), Num(3)}
Orders == {Num(2), Num(3)}
Inputs == {Num(0), Num(2), Num(3)}

VARIABLES
    env,      \* the caller's bindings: slot -> Expression
    left,     \* wrapper operations the caller still performs in this run
    call,     \* <<>>, or <<self, input>> of the eval call in progress
    stack,    \* frames of the nested eval calls, innermost last
    log,      \* the nodes whose eval returned during this call, in order
    result    \* <<>>, or the pair the call returned

vars == <<env, left, call, stack, log, result>>

Frame(node, input, path) ==
    [node |-> node, input |-> input, vals |-> <<>>, path |-> path]

Idle ==
    call = <<>>

Init ==
    /\ env = [s \in Slots |-> get]
    /\ left = MaxBuilds
    /\ call = <<>>
    /\ stack = <<>>
    /\ log = <<>>
    /\ result = <<>>

\* Bind with bindings that share their node: every binding that holds the
\* target's expression sees the new one.
BindShared(t, e) ==
    /\ Idle
    /\ left > 0
    /\ env' = [s \in Slots |-> IF env[s] = env[t] THEN e ELSE env[s]]
    /\ left' = left - 1
    /\ UNCHANGED <<call, stack, log, result>>

\* The caller binds slot t to a newly built expression.
Bind(t, e) ==
    /\ Idle
    /\ left > 0
    /\ env' = [env EXCEPT ![t] = e]
    /\ left' = left - 1
    /\ UNCHANGED <<call, stack, log, result>>

Get == \E t \in Slots : Bind(t, get)
Add == \E a, b, t \in Slots : Bind(t, add(env[a], env[b]))
AddF32 == \E a, t \in Slots, c \in Scalars : Bind(t, add_f32(env[a], c))
F32Add == \E a, t \in Slots, c \in Scalars : Bind(t, f32_add(c, env[a]))
Mul == \E a, b, t \in Slots : Bind(t, mul(env[a], env[b]))
MulF32 == \E a, t \in Slots, c \in Scalars : Bind(t, mul_f32(env[a], c))
F32Mul == \E a, t \in Slots, c \in Scalars : Bind(t, f32_mul(c, env[a]))
Sub == \E a, b, t \in Slots : Bind(t, sub(env[a], env[b]))
SubF32 == \E a, t \in Slots, c \in Scalars : Bind(t, sub_f32(env[a], c))
F32Sub == \E a, t \in Slots, c \in Scalars : Bind(t, f32_sub(c, env[a]))
Neg == \E a, t \in Slots : Bind(t, neg(env[a]))
Div == \E a, b, t \in Slots : Bind(t, div(env[a], env[b]))
DivF32 == \E a, t \in Slots, c \in Scalars : Bind(t, div_f32(env[a], c))
F32Div == \E a, t \in Slots, c \in Scalars : Bind(t, f32_div(c, env[a]))
Pow == \E a, t \in Slots, n \in Orders : Bind(t, pow(env[a], n))
Sqrt == \E a, t \in Slots : Bind(t, sqrt(env[a]))
Exp == \E a, t \in Slots : Bind(t, exp(env[a]))
Sin == \E a, t \in Slots : Bind(t, sin(env[a]))
Cos == \E a, t \in Slots : Bind(t, cos(env[a]))
Ln == \E a, t \in Slots : Bind(t, ln(env[a]))
ComposeExprs == \E a, b, t \in Slots : Bind(t, compose(env[a], env[b]))

\* Expression::eval: forwards to the wrapped node's eval.
EvalCall(s, x) ==
    /\ Idle
    /\ call' = <<env[s], x>>
    /\ stack' = <<Frame(env[s].expr, x, <<>>)>>
    /\ log' = <<>>
    /\ result' = <<>>
    /\ UNCHANGED <<env, left>>

Eval == \E s \in Slots, x \in Inputs : EvalCall(s, x)

\* The innermost eval calls the eval of its next child.
Descend ==
    /\ stack # <<>>
    /\ LET top == stack[Len(stack)]
           kids == Children(top.node)
       IN  /\ Len(top.vals) < Len(kids)
           /\ LET field == kids[Len(top.vals) + 1]
              IN  stack' = Append(stack,
                      Frame(top.node[field],
                            ChildInput(top.node, top.input, top.vals, field),
                            Append(top.path, field)))
    /\ UNCHANGED <<env, left, call, log, result>>

\* The innermost eval has its children's pairs, computes its own and returns
\* it to its caller.
Return ==
    /\ stack # <<>>
    /\ Len(stack[Len(stack)].vals) = Len(Children(stack[Len(stack)].node))
    /\ LET n == Len(stack)
           top == stack[n]
           out == NodeEval(top.node, top.input, top.vals)
       IN  /\ log' = Append(log, [path |-> top.path, input |-> top.input, out |-> out])
           /\ stack' = IF n = 1 THEN <<>>
                        ELSE [SubSeq(stack, 1, n - 1) EXCEPT
                                 ![n - 1].vals = Append(@, out)]
           /\ result' = IF n = 1 THEN out ELSE result
    /\ UNCHANGED <<env, left, call>>

\* The caller takes the returned pair; the call is over.
TakeResult ==
    /\ call # <<>>
    /\ stack = <<>>
    /\ call' = <<>>
    /\ log' = <<>>
    /\ result' = <<>>
    /\ UNCHANGED <<env, left, stack>>

Next ==
    \/ Get \/ Add \/ AddF32 \/ F32Add \/ Mul \/ MulF32 \/ F32Mul
    \/ Sub \/ SubF32 \/ F32Sub \/ Neg \/ Div \/ DivF32 \/ F32Div
    \/ Pow \/ Sqrt \/ Exp \/ Sin \/ Cos \/ Ln \/ ComposeExprs
    \/ Eval \/ Descend \/ Return \/ TakeResult

Spec == Init /\ [][Next]_vars

\* The caller has built f(x) = x^2 and g(x) = 3x and goes on from there.
InitCompose ==
    /\ env = [s \in Slots |-> IF s = "f" THEN pow(get, Num(2))
                                         ELSE f32_mul(Num(3), get)]
    /\ left = MaxMoreBuilds
    /\ call = <<>>
    /\ stack = <<>>
    /\ log = <<>>
    /\ result = <<>>

SpecCompose == InitCompose /\ [][Next]_vars

\* eval is a synchronous recursion: a call that can take its next step takes it.
SpecLive == InitCompose /\ [][Next]_vars /\ WF_vars(Descend) /\ WF_vars(Return)

(***************************************************************************)
(* Helpers of the properties.                                              *)
(***************************************************************************)
\* node.eval(input) as one recursive descent: the pair the nested calls give.
RECURSIVE EvalOf(_, _)
EvalOf(node, input) ==
    LET kids == Children(node)
    IN  IF kids = <<>> THEN NodeEval(node, input, <<>>)
        ELSE IF Len(kids) = 1
        THEN NodeEval(node, input, <<EvalOf(node[kids[1]], input)>>)
        ELSE LET v1 == EvalOf(node[kids[1]],
                              ChildInput(node, input, <<>>, kids[1]))
                 v2 == EvalOf(node[kids[2]],
                              ChildInput(node, input, <<v1>>, kids[2]))
             IN  NodeEval(node, input, <<v1, v2>>)

\* The node of a tree at a path of field names.
RECURSIVE NodeAt(_, _)
NodeAt(node, path) ==
    IF path = <<>> THEN node ELSE NodeAt(node[Head(path)], Tail(path))

\* The number of nodes of a tree.
RECURSIVE NodeCount(_)
NodeCount(node) ==
    LET kids == Children(node)
    IN  IF kids = <<>> THEN 1
        ELSE IF Len(kids) = 1 THEN 1 + NodeCount(node[kids[1]])
        ELSE 1 + NodeCount(node[kids[1]]) + NodeCount(node[kids[2]])

\* The tree the call in progress evaluates.
Root == call[1].expr

\* The positions of the log.
Entries == 1..Len(log)

\* The node a log entry is about.
EntryNode(i) == NodeAt(Root, log[i].path)

\* Whether the log has an entry for the child `field` of entry i's node.
HasChild(i, field) ==
    \E j \in Entries : log[j].path = Append(log[i].path, field)

\* The log entry of the child `field` of entry i's node.
Child(i, field) ==
    log[CHOOSE j \in Entries : log[j].path = Append(log[i].path, field)]

\* Equal as numbers: the same value, a zero of either sign being zero.
NumEq(a, b) ==
    a = b \/ (IsZero(a) /\ IsZero(b))

PairEq(p, q) ==
    NumEq(p[1], q[1]) /\ NumEq(p[2], q[2])

(***************************************************************************)
(* Properties.  The log of a call holds, for every node whose eval         *)
(* returned, the input it was called with and the pair it returned; the    *)
(* rules are stated on the log, in terms of the f32 operations alone.      *)
(***************************************************************************)

\* C2: for every input x and constant k, Variable.eval(x) returns (x, 1) and
\* Constant(k).eval(x) returns (k, 0), whatever x is.
C2_LeafRules ==
    \A i \in Entries :
        LET node == EntryNode(i)
        IN  /\ node.op = "Var" => log[i].out = <<log[i].input, Num(1)>>
            /\ node.op = "Const" => log[i].out = <<node.value, Num(0)>>

\* A call at input 3 in which a Var and a Const(2) returned.
C2_Witness ==
    /\ call # <<>>
    /\ call[2] = Num(3)
    /\ \E i, j \in Entries :
        /\ EntryNode(i) = Var
        /\ log[i].out = <<Num(3), Num(1)>>
        /\ EntryNode(j) = Const(Num(2))
        /\ log[j].input = Num(3)
        /\ log[j].out = <<Num(2), Num(0)>>

\* The product of the spec's example: f = Variable, g = Constant(2) * Variable.
ProductExample == mul(get, f32_mul(Num(2), get))

\* C3: with (u, du) = lhs.eval(x) and (v, dv) = rhs.eval(x), both at the input
\* x of the node, Add returns (u+v, du+dv), Sub returns (u-v, du-dv) and Mul
\* returns (u*v, u*dv + v*du); (f*g).eval(3) = (18, 12) for f = Variable,
\* g = Constant(2) * Variable.
C3_BinaryRules ==
    /\ \A i \in Entries :
        LET node == EntryNode(i)
        IN  node.op \in {"AddOp", "SubOp", "MulOp"} =>
                LET l == Child(i, "lhs")
                    r == Child(i, "rhs")
                    u == l.out[1]
                    du == l.out[2]
                    v == r.out[1]
                    dv == r.out[2]
                IN  /\ l.input = log[i].input
                    /\ r.input = log[i].input
                    /\ node.op = "AddOp" => log[i].out = <<FAdd(u, v), FAdd(du, dv)>>
                    /\ node.op = "SubOp" => log[i].out = <<FSub(u, v), FSub(du, dv)>>
                    /\ node.op = "MulOp" =>
                           log[i].out = <<FMul(u, v), FAdd(FMul(u, dv), FMul(v, du))>>
    /\ (call = <<ProductExample, Num(3)>> /\ result # <<>>) =>
           result = <<Num(18), Num(12)>>

\* The product example evaluated at 3, with result (18, 12).
C3_Witness ==
    /\ call = <<ProductExample, Num(3)>>
    /\ result = <<Num(18), Num(12)>>

\* C4: with (u, du) = inner.eval(x), Power(inner, n).eval(x) returns
\* (u^n, du * n * u^(n-1)), n being a constant of the node;
\* Variable.pow(3).eval(2) = (8, 12).
C4_PowerRule ==
    /\ \A i \in Entries :
        LET node == EntryNode(i)
        IN  node.op = "PowOp" =>
                LET c == Child(i, "expr")
                    u == c.out[1]
                    du == c.out[2]
                    n == node.order
                IN  /\ c.input = log[i].input
                    /\ log[i].out =
                           <<FPowf(u, n), FMul(FMul(du, n), FPowf(u, FSub(n, Num(1))))>>
    /\ (call = <<pow(get, Num(3)), Num(2)>> /\ result # <<>>) =>
           result = <<Num(8), Num(12)>>

\* Variable.pow(3) evaluated at 2, with result (8, 12).
C4_Witness ==
    /\ call = <<pow(get, Num(3)), Num(2)>>
    /\ result = <<Num(8), Num(12)>>

C5_DivTotal ==
    /\ stack # <<>> =>
           LET top == stack[Len(stack)]
           IN  Len(top.vals) <= Len(Children(top.node))
    /\ \A i \in Entries :
        /\ Len(log[i].out) = 2
        /\ \A m \in 1..2 : log[i].out[m].k \in {"fin", "inf", "nan", "sym"}
        /\ LET node == EntryNode(i)
           IN  node.op = "DivOp" =>
                   LET l == Child(i, "lhs")
                       r == Child(i, "rhs")
                       u == l.out[1]
                       du == l.out[2]
                       v == r.out[1]
                       dv == r.out[2]
                   IN  /\ log[i].out =
                              <<FDiv(u, v),
                                FDiv(FSub(FMul(du, v), FMul(dv, u)), FMul(v, v))>>
                       /\ IsZero(v) => (IsInf(log[i].out[1]) \/ IsNaN(log[i].out[1]))
    /\ (call = <<f32_div(Num(1), get), Num(0)>> /\ result # <<>>) =>
           (IsInf(result[1]) \/ IsNaN(result[1]))

\* (Constant(1)/Variable) evaluated at 0 returned a pair whose value is +Inf.
C5_Witness ==
    /\ call = <<f32_div(Num(1), get), Num(0)>>
    /\ result # <<>>
    /\ result[1] = Inf(1)

\* The composition of the spec's example: f(x) = x^2, g(x) = 3x, f.compose(g).
ComposeExample == compose(pow(get, Num(2)), f32_mul(Num(3), get))

C6_ScalarLifting ==
    Idle => \A s \in Slots, c \in Scalars :
        LET f == env[s]
            k == Expression(Const(c))
        IN  /\ add_f32(f, c) = add(f, k)
            /\ f32_add(c, f) = add(k, f)
            /\ sub_f32(f, c) = sub(f, k)
            /\ f32_sub(c, f) = sub(k, f)
            /\ mul_f32(f, c) = mul(f, k)
            /\ f32_mul(c, f) = mul(k, f)
            /\ div_f32(f, c) = div(f, k)
            /\ f32_div(c, f) = div(k, f)
            /\ \A x \in Inputs :
                LET u == EvalOf(f.expr, x)[1]
                    du == EvalOf(f.expr, x)[2]
                IN  /\ PairEq(EvalOf(f32_sub(c, f).expr, x), <<FSub(c, u), FNeg(du)>>)
                    /\ PairEq(EvalOf(sub_f32(f, c).expr, x), <<FSub(u, c), du>>)

\* The caller built 3 - f from f(x) = x^2 and evaluated it at 2: (3 - 4, -4).
C6_Witness ==
    /\ env["f"] = pow(get, Num(2))
    /\ env["g"] = f32_sub(Num(3), env["f"])
    /\ call = <<env["g"], Num(2)>>
    /\ result = <<Num(-1), Num(-4)>>

\* C7: an expression is an immutable value.  A step changes at most the one
\* binding it assigns, a call in progress changes none, the expression a call
\* evaluates is a binding's expression as it is, and the pair the call returns
\* is the pair of that expression at that input, whatever ran before.
C7_Immutable ==
    [][ /\ Cardinality({s \in Slots : env'[s] # env[s]}) <= 1
        /\ (call # <<>> \/ call' # <<>>) => env' = env
        /\ (call = <<>> /\ call' # <<>>) => \E s \in Slots : call'[1] = env[s]
        /\ (result = <<>> /\ result' # <<>>) =>
               result' = EvalOf(call[1].expr, call[2])
      ]_vars

\* g was built from f by g = f + f, f is still x^2, and evaluating f at 3 after
\* that gave (9, 6).
C7_Witness ==
    /\ env["f"] = pow(get, Num(2))
    /\ env["g"] = add(env["f"], env["f"])
    /\ call = <<env["f"], Num(3)>>
    /\ result = <<Num(9), Num(6)>>

\* C8 as stated: for all f, g, c and x, (f+g).eval(x).derivative is
\* f.eval(x).derivative + g.eval(x).derivative and (c*f).eval(x).derivative is
\* c * f.eval(x).derivative.
C8_LinearityAsStated ==
    (call # <<>> /\ result # <<>>) =>
        LET x == call[2]
        IN  /\ Root.op = "AddOp" =>
                   NumEq(result[2],
                         FAdd(EvalOf(Root.lhs, x)[2], EvalOf(Root.rhs, x)[2]))
            /\ (Root.op = "MulOp" /\ Root.lhs.op = "Const") =>
                   NumEq(result[2], FMul(Root.lhs.value, EvalOf(Root.rhs, x)[2]))

\* C8, amended: the sum rule for all f, g and x; the scalar rule whenever the
\* value f.eval(x).value is finite.
C8_Linearity ==
    (call # <<>> /\ result # <<>>) =>
        LET x == call[2]
        IN  /\ Root.op = "AddOp" =>
                   NumEq(result[2],
                         FAdd(EvalOf(Root.lhs, x)[2], EvalOf(Root.rhs, x)[2]))
            /\ (Root.op = "MulOp" /\ Root.lhs.op = "Const"
                    /\ Finite(EvalOf(Root.rhs, x)[1])) =>
                   NumEq(result[2], FMul(Root.lhs.value, EvalOf(Root.rhs, x)[2]))

\* 2 * f for f(x) = x^3 evaluated at 3: f' = 27, (2*f)' = 54.
C8_Witness ==
    /\ call = <<f32_mul(Num(2), pow(get, Num(3))), Num(3)>>
    /\ result = <<Num(54), Num(54)>>

\* The nodes of the children of `node` from position j on.
RECURSIVE NodesFrom(_, _)
NodesFrom(node, j) ==
    IF j > Len(Children(node)) THEN 0
    ELSE NodeCount(node[Children(node)[j]]) + NodesFrom(node, j + 1)

\* The evals that have still to return below and at frame k of the stack: its
\* own, and those of the children it has not called yet.
Pending(k) ==
    1 + NodesFrom(stack[k].node,
                  Len(stack[k].vals) + (IF k = Len(stack) THEN 1 ELSE 2))

RECURSIVE PendingUpTo(_)
PendingUpTo(k) ==
    IF k = 0 THEN 0 ELSE Pending(k) + PendingUpTo(k - 1)

\* The steps the call in progress still takes: two per pending eval (its call
\* and its return), less the calls already made.
Work ==
    2 * PendingUpTo(Len(stack)) - Len(stack)

\* C10: a call to eval always terminates.  It is one recursive descent: every
\* step of a call lowers the work left by one, from twice the number of nodes,
\* and a call in progress can always step, so it returns under the fairness of
\* SpecLive; each node's eval returns at most once, after those of its
\* children; and a step that builds an expression evaluates nothing.
C10_Terminates ==
    /\ [](/\ Work >= 0
          /\ (stack # <<>>) => (ENABLED Descend \/ ENABLED Return)
          /\ \A i, j \in Entries : log[i].path = log[j].path => i = j
          /\ \A i \in Entries :
                \A m \in 1..Len(Children(EntryNode(i))) :
                    \E j \in 1..(i - 1) :
                        log[j].path = Append(log[i].path, Children(EntryNode(i))[m])
          /\ (result # <<>>) => Len(log) = NodeCount(Root))
    /\ [][ /\ (stack = <<>> /\ stack' # <<>>) => Work' = 2 * NodeCount(Root') - 1
           /\ (stack # <<>>) => Work' = Work - 1
           /\ (env' # env) =>
                  /\ call = <<>> /\ call' = <<>>
                  /\ stack' = <<>> /\ log' = <<>> /\ result' = <<>>
         ]_vars
    /\ (call # <<>>) ~> (result # <<>>)

\* The call of x^2 * (3 * x) at 2 returned (24, 36): six nodes, six entries in
\* the log, the root's last.
C10_Witness ==
    /\ call = <<mul(pow(get, Num(2)), f32_mul(Num(3), get)), Num(2)>>
    /\ result = <<Num(24), Num(36)>>
    /\ Len(log) = 6
    /\ log[6].path = <<>>
    /\ Work = 0

====
